---- MODULE Spec2Model ----
(***************************************************************************)
(* A model of pelican-obsidian (src/pelican/plugins/obsidian/obsidian.py). *)
(*                                                                         *)
(* Strings are sequences of one-character strings.  The only elements      *)
(* longer than one character are the literal pieces of the output          *)
(* templates ("{filename}", "{static}" and the three pieces of the PDF     *)
(* block): none of them contains a bracket, a bar or a newline, none       *)
(* starts or ends with whitespace, and the only "!" inside one is followed *)
(* by "-", so the patterns treat each of them as one ordinary character.   *)
(***************************************************************************)
EXTENDS Naturals, Sequences, FiniteSets, TLC

VARIABLES
  os_sep,         \* os.sep of the host: "/" or "\\"
  tree,           \* the content tree: base path and files, in traversal order
  ARTICLE_PATHS,  \* module global: document stem -> directory
  FILE_PATHS,     \* module global: asset filename -> directory
  pc,             \* position of the host's build pipeline
  readers,        \* generator -> the reader registered for 'md'
  doc,            \* the source document being read
  text,           \* `text` in replace_obsidian_links: before each pass, after
  content,        \* the content returned by read
  tags,           \* metadata["tags"]: the tag names, in order
  log             \* calls of the current build: "populate", "rewrite"

vars == <<os_sep, tree, ARTICLE_PATHS, FILE_PATHS, pc, readers, doc, text,
          content, tags, log>>

(***************************************************************************)
(* Python string primitives                                                *)
(***************************************************************************)

\* str.isspace() restricted to the two whitespace characters of the model;
\* the same set is what \s matches.
WS == {" ", "\n"}

\* s[a..b] (1-based, inclusive); empty when a > b
Slice(s, a, b) == IF a > b THEN <<>> ELSE SubSeq(s, a, b)

RECURSIVE LStripFrom(_, _)
LStripFrom(s, i) ==
  IF i > Len(s) THEN i
  ELSE IF s[i] \in WS THEN LStripFrom(s, i + 1) ELSE i

RECURSIVE RStripFrom(_, _)
RStripFrom(s, j) ==
  IF j < 1 THEN j
  ELSE IF s[j] \in WS THEN RStripFrom(s, j - 1) ELSE j

\* str.strip()
strip(s) == Slice(s, LStripFrom(s, 1), RStripFrom(s, Len(s)))

\* str.startswith(p) at offset i
StartsAt(s, i, p) ==
  /\ i + Len(p) - 1 <= Len(s)
  /\ \A k \in 1..Len(p) : s[i + k - 1] = p[k]

\* str.endswith(p)
endswith(s, p) == Len(p) <= Len(s) /\ StartsAt(s, Len(s) - Len(p) + 1, p)

\* str.replace(old, new): every non-overlapping occurrence, left to right
RECURSIVE ReplaceFrom(_, _, _, _)
ReplaceFrom(s, i, old, new) ==
  IF i > Len(s) THEN <<>>
  ELSE IF StartsAt(s, i, old) THEN new \o ReplaceFrom(s, i + Len(old), old, new)
  ELSE <<s[i]>> \o ReplaceFrom(s, i + 1, old, new)

replace(s, old, new) == ReplaceFrom(s, 1, old, new)

\* str.lower() on the letters of the model
LowerChar(c) ==
  CASE c = "P" -> "p"
    [] c = "D" -> "d"
    [] c = "F" -> "f"
    [] OTHER -> c

lower(s) == [k \in 1..Len(s) |-> LowerChar(s[k])]

\* str.split(sep) for a one-character separator
RECURSIVE SplitFrom(_, _, _, _)
SplitFrom(s, i, sep, acc) ==
  IF i > Len(s) THEN <<acc>>
  ELSE IF s[i] = sep THEN <<acc>> \o SplitFrom(s, i + 1, sep, <<>>)
  ELSE SplitFrom(s, i + 1, sep, Append(acc, s[i]))

split(s, sep) == SplitFrom(s, 1, sep, <<>>)

\* dict.get(key): None when the key is absent
None == <<"<None>">>

Get(d, k) == IF k \in DOMAIN d THEN d[k] ELSE None

\* d[key] = value
Put(d, k, v) == [x \in DOMAIN d \cup {k} |-> IF x = k THEN v ELSE d[x]]

\* truth value of a str-or-None
Truthy(v) == v # None /\ v # <<>>

(***************************************************************************)
(* The patterns (lines 19-21)                                              *)
(*   link = \[\[\s*(?P<filename>[^|\]]+)(\|\s*(?P<linkname>.+))?\]\]      *)
(* matched the way Python's backtracking matcher does: every quantifier is *)
(* greedy and gives characters back one at a time.                         *)
(***************************************************************************)

NoMatch == [ok |-> FALSE, end |-> 0, filename |-> <<>>, linkname |-> None]

\* [^|\]]+ taken greedily from j: the first position it cannot take.  A
\* shorter filename is followed by a character that is neither "|" nor "]",
\* so giving characters back can never make the rest match.
RECURSIVE FilenameEnd(_, _)
FilenameEnd(t, j) ==
  IF j > Len(t) \/ t[j] \in {"|", "]"} THEN j ELSE FilenameEnd(t, j + 1)

\* .+ taken greedily from p: the first position it cannot take ("." does not
\* match a newline)
RECURSIVE DotEnd(_, _)
DotEnd(t, p) ==
  IF p > Len(t) \/ t[p] = "\n" THEN p ELSE DotEnd(t, p + 1)

\* .+ gives back from q down to p + 1 until "]]" follows; 0 when it never does
RECURSIVE DotBacktrack(_, _, _)
DotBacktrack(t, p, q) ==
  IF q <= p THEN 0
  ELSE IF StartsAt(t, q, <<"]", "]">>) THEN q
  ELSE DotBacktrack(t, p, q - 1)

\* \|\s*(?P<linkname>.+) followed by \]\], the bar at e: \s* has taken
\* e+1..p-1 and gives back down to nothing
RECURSIVE AliasBacktrack(_, _, _)
AliasBacktrack(t, e, p) ==
  IF p <= e THEN [ok |-> FALSE, p |-> 0, q |-> 0]
  ELSE LET q == DotBacktrack(t, p, DotEnd(t, p))
       IN  IF q # 0 THEN [ok |-> TRUE, p |-> p, q |-> q]
           ELSE AliasBacktrack(t, e, p - 1)

\* Rest with the end of the text taken for a closing "]]"
Rest_unclosed(t, e) ==
  LET a == IF e <= Len(t) /\ t[e] = "|"
           THEN AliasBacktrack(t, e, LStripFrom(t, e + 1))
           ELSE [ok |-> FALSE, p |-> 0, q |-> 0]
  IN  IF a.ok
      THEN [ok |-> TRUE, end |-> a.q + 2, linkname |-> Slice(t, a.p, a.q - 1)]
      ELSE IF StartsAt(t, e, <<"]", "]">>)
      THEN [ok |-> TRUE, end |-> e + 2, linkname |-> None]
      ELSE IF e > Len(t)
      THEN [ok |-> TRUE, end |-> e, linkname |-> None]
      ELSE [ok |-> FALSE, end |-> 0, linkname |-> None]

\* (\|\s*(?P<linkname>.+))?\]\] at e: the group is tried first, then skipped
Rest(t, e) ==
  LET a == IF e <= Len(t) /\ t[e] = "|"
           THEN AliasBacktrack(t, e, LStripFrom(t, e + 1))
           ELSE [ok |-> FALSE, p |-> 0, q |-> 0]
  IN  IF a.ok
      THEN [ok |-> TRUE, end |-> a.q + 2, linkname |-> Slice(t, a.p, a.q - 1)]
      ELSE IF StartsAt(t, e, <<"]", "]">>)
      THEN [ok |-> TRUE, end |-> e + 2, linkname |-> None]
      ELSE [ok |-> FALSE, end |-> 0, linkname |-> None]

\* \s*(?P<filename>[^|\]]+)... after "[[" at i: \s* has taken i+2..s-1 and
\* gives back down to nothing
RECURSIVE MatchFrom(_, _, _)
MatchFrom(t, i, s) ==
  IF s < i + 2 THEN NoMatch
  ELSE LET e == FilenameEnd(t, s)
           r == Rest(t, e)
       IN  IF e > s /\ r.ok
           THEN [ok |-> TRUE, end |-> r.end,
                 filename |-> Slice(t, s, e - 1), linkname |-> r.linkname]
           ELSE MatchFrom(t, i, s - 1)

\* link_re.match(t, i): end is the position after the match
link_re(t, i) ==
  IF StartsAt(t, i, <<"[", "[">>)
  THEN MatchFrom(t, i, LStripFrom(t, i + 2))
  ELSE NoMatch

\* file_re.match(t, i)
file_re(t, i) ==
  IF i <= Len(t) /\ t[i] = "!" THEN link_re(t, i + 1) ELSE NoMatch

(***************************************************************************)
(* get_file_and_linkname and the two replacement callbacks                 *)
(***************************************************************************)

\* get_file_and_linkname without the two strip() calls
get_file_and_linkname_unstripped(match) ==
  LET filename == match.filename
      linkname == IF Truthy(match.linkname) THEN match.linkname ELSE filename
  IN  [filename |-> filename, linkname |-> linkname]

get_file_and_linkname(match) ==
  LET filename == strip(match.filename)
      linkname == IF Truthy(match.linkname) THEN match.linkname ELSE filename
  IN  [filename |-> filename, linkname |-> strip(linkname)]

link_replacement(match) ==
  LET fl == get_file_and_linkname(match)
      path == Get(ARTICLE_PATHS, fl.filename)
  IN  IF Truthy(path)
      THEN <<"[">> \o fl.linkname \o <<"]", "(", "{filename}">> \o path
             \o fl.filename \o <<".", "m", "d", ")">>
      ELSE fl.linkname

PDF_OPEN == <<"<iframe src=\"{static}">>
PDF_MID ==
  <<"\" width=\"100%\" height=\"800px\" style=\"border: none;\"></iframe><p><!-- browser fall back --> Click here to download. <a href=\"{static}">>
PDF_CLOSE == <<"\" target=\"_blank\" rel=\"noopener\">Download the PDF</a></p>">>

\* file_replacement testing the extension without lower()
file_replacement_case_sensitive(match) ==
  LET fl == get_file_and_linkname(match)
      path == Get(FILE_PATHS, fl.filename)
  IN  IF Truthy(path)
      THEN IF endswith(fl.filename, <<".", "p", "d", "f">>)
           THEN PDF_OPEN \o path \o fl.filename \o PDF_MID \o path
                  \o fl.filename \o PDF_CLOSE
           ELSE <<"!", "[">> \o fl.linkname \o <<"]", "(", "{static}">>
                  \o path \o fl.filename \o <<")">>
      ELSE <<>>

file_replacement(match) ==
  LET fl == get_file_and_linkname(match)
      path == Get(FILE_PATHS, fl.filename)
  IN  IF Truthy(path)
      THEN IF endswith(lower(fl.filename), <<".", "p", "d", "f">>)
           THEN PDF_OPEN \o path \o fl.filename \o PDF_MID \o path
                  \o fl.filename \o PDF_CLOSE
           ELSE <<"!", "[">> \o fl.linkname \o <<"]", "(", "{static}">>
                  \o path \o fl.filename \o <<")">>
      ELSE <<>>

\* pattern.sub(repl, t) from position i: the leftmost match is replaced and
\* the scan goes on after it; an unmatched character is copied
RECURSIVE file_re_sub(_, _)
file_re_sub(t, i) ==
  IF i > Len(t) THEN <<>>
  ELSE LET m == file_re(t, i)
       IN  IF m.ok THEN file_replacement(m) \o file_re_sub(t, m.end)
           ELSE <<t[i]>> \o file_re_sub(t, i + 1)

RECURSIVE link_re_sub(_, _)
link_re_sub(t, i) ==
  IF i > Len(t) THEN <<>>
  ELSE LET m == link_re(t, i)
       IN  IF m.ok THEN link_replacement(m) \o link_re_sub(t, m.end)
           ELSE <<t[i]>> \o link_re_sub(t, i + 1)

\* the positions at which link_re.sub replaces a match
RECURSIVE link_re_starts(_, _)
link_re_starts(t, i) ==
  IF i > Len(t) THEN {}
  ELSE LET m == link_re(t, i)
       IN  IF m.ok THEN {i} \cup link_re_starts(t, m.end)
           ELSE link_re_starts(t, i + 1)

\* replace_obsidian_links with lines 98 and 99 swapped
replace_obsidian_links_links_first(t) ==
  LET t1 == link_re_sub(t, 1)
      t2 == file_re_sub(t1, 1)
  IN  [file_in |-> t1, link_in |-> t, out |-> t2]

\* replace_obsidian_links(text), lines 98-100: the text each pass is given
\* and the text returned
replace_obsidian_links(t) ==
  LET t1 == file_re_sub(t, 1)
      t2 == link_re_sub(t1, 1)
  IN  [file_in |-> t, link_in |-> t1, out |-> t2]

(***************************************************************************)
(* Tag handling                                                            *)
(***************************************************************************)

\* Tag(name, settings): the name is kept as given
Tag(name) == name

\* _load_yaml_metadata, lines 104-115: the loop over the tags the parent
\* class returned
RECURSIVE _load_yaml_metadata(_)
_load_yaml_metadata(ts) ==
  IF ts = <<>> THEN <<>>
  ELSE LET tag == Head(ts)
           mod_tags == IF "," \in {tag[k] : k \in 1..Len(tag)}
                       THEN LET str_tags == split(tag, ",")
                            IN  [k \in 1..Len(str_tags) |-> Tag(str_tags[k])]
                       ELSE <<tag>>
       IN  mod_tags \o _load_yaml_metadata(Tail(ts))

\* modify_metadata: tag.name.replace('#', '') for every tag
modify_metadata(ts) == [k \in 1..Len(ts) |-> replace(ts[k], <<"#">>, <<>>)]

(***************************************************************************)
(* The content tree and populate_files_and_articles                        *)
(***************************************************************************)

\* str(Path): the components joined by os.sep, from the filesystem root
RECURSIVE PathStr(_)
PathStr(comps) ==
  IF comps = <<>> THEN <<>>
  ELSE <<os_sep>> \o Head(comps) \o PathStr(Tail(comps))

\* the characters os.path.split takes for separators
Seps == IF os_sep = "\\" THEN {"/", "\\"} ELSE {"/"}

RECURSIVE RFindSep(_, _)
RFindSep(p, i) ==
  IF i < 1 THEN 0 ELSE IF p[i] \in Seps THEN i ELSE RFindSep(p, i - 1)

RECURSIVE RStripSeps(_, _)
RStripSeps(p, j) ==
  IF j < 1 THEN j ELSE IF p[j] \in Seps THEN RStripSeps(p, j - 1) ELSE j

\* os.path.split(p): <<head, tail>>
os_path_split(p) ==
  LET i == RFindSep(p, Len(p))
      head == Slice(p, 1, i)
      j == RStripSeps(head, Len(head))
  IN  <<IF j < 1 THEN head ELSE Slice(head, 1, j), Slice(p, i + 1, Len(p))>>

RECURSIVE RFindDot(_, _)
RFindDot(p, i) ==
  IF i < 1 THEN 0 ELSE IF p[i] = "." THEN i ELSE RFindDot(p, i - 1)

\* os.path.splitext(name) of a name without separators: <<root, ext>>;
\* leading dots are not an extension
os_path_splitext(name) ==
  LET d == RFindDot(name, Len(name))
  IN  IF d > 0 /\ \E k \in 1..(d - 1) : name[k] # "."
      THEN <<Slice(name, 1, d - 1), Slice(name, d, Len(name))>>
      ELSE <<name, <<>>>>

\* Path.glob('**/*.<ext>'): the files of the tree, in traversal order, whose
\* name matches; the match ignores case where the host's paths do (Windows)
GlobMatches(name, ext) ==
  LET n == IF os_sep = "\\" THEN lower(name) ELSE name
  IN  endswith(n, <<".">> \o ext)

glob(ext) ==
  LET keep == {k \in 1..Len(tree.files) :
                 GlobMatches(tree.files[k][Len(tree.files[k])], ext)}
      Nth[n \in 0..Cardinality(keep)] ==
        IF n = 0 THEN 0
        ELSE CHOOSE k \in keep :
               /\ k > Nth[n - 1]
               /\ \A j \in keep : j > Nth[n - 1] => k <= j
  IN  [n \in 1..Cardinality(keep) |-> tree.base \o tree.files[Nth[n]]]

\* lines 158-161 and 176-179: the directory recorded for a file
RelDir(full_path) ==
  LET path == replace(full_path, PathStr(tree.base), <<>>) \o <<"/">>
  IN  IF os_sep = "\\" THEN replace(path, <<"\\">>, <<"/">>) ELSE path

\* IndexArticles adding the directory to what the key holds already
RECURSIVE IndexArticles_appending(_, _)
IndexArticles_appending(paths, articles) ==
  IF articles = <<>> THEN paths
  ELSE LET sp == os_path_split(PathStr(Head(articles)))
           filename == os_path_splitext(sp[2])[1]
           old == IF filename \in DOMAIN paths THEN paths[filename] ELSE <<>>
       IN  IndexArticles_appending(
             Put(paths, filename, old \o RelDir(sp[1])), Tail(articles))

\* lines 155-164
RECURSIVE IndexArticles(_, _)
IndexArticles(paths, articles) ==
  IF articles = <<>> THEN paths
  ELSE LET sp == os_path_split(PathStr(Head(articles)))
           filename == os_path_splitext(sp[2])[1]
       IN  IndexArticles(Put(paths, filename, RelDir(sp[1])), Tail(articles))

\* lines 174-180
RECURSIVE IndexFiles(_, _)
IndexFiles(paths, files) ==
  IF files = <<>> THEN paths
  ELSE LET sp == os_path_split(PathStr(Head(files)))
       IN  IndexFiles(Put(paths, sp[2], RelDir(sp[1])), Tail(files))

MD == <<"m", "d">>

\* line 171
EXTENSIONS ==
  << <<"p", "n", "g">>, <<"j", "p", "g">>, <<"j", "p", "e", "g">>,
     <<"s", "v", "g">>, <<"a", "p", "k", "g">>, <<"g", "i", "f">>,
     <<"w", "e", "b", "p">>, <<"a", "v", "i", "f">>, <<"p", "d", "f">> >>

\* chain(*globs)
RECURSIVE chain(_)
chain(k) ==
  IF k > Len(EXTENSIONS) THEN <<>> ELSE glob(EXTENSIONS[k]) \o chain(k + 1)

\* populate_files_and_articles starting from empty tables
populate_files_and_articles_fresh ==
  [articles |-> IndexArticles(<<>>, glob(MD)),
   files |-> IndexFiles(<<>>, chain(1))]

\* populate_files_and_articles: the two globals after the call
populate_files_and_articles ==
  [articles |-> IndexArticles(ARTICLE_PATHS, glob(MD)),
   files |-> IndexFiles(FILE_PATHS, chain(1))]

(***************************************************************************)
(* Inputs: content trees, document bodies, front-matter tags               *)
(***************************************************************************)

MaxSegs == 2
MaxTags == 2

T_MD == <<"t", ".", "m", "d">>
C_PNG == <<"c", ".", "p", "n", "g">>
D_PDF == <<"d", ".", "p", "d", "f">>
D_PDF_UPPER == <<"D", ".", "P", "D", "F">>

\* the content root, and files as path components below it
BASE == << <<"c">> >>
NOTES_T == << <<"n">>, T_MD >>
OTHER_T == << <<"o">>, T_MD >>
NESTED_T == << <<"n">>, <<"c">>, T_MD >>
FILES_C == << <<"f">>, C_PNG >>
DEEP_C == << <<"f">>, <<"o">>, C_PNG >>
ROOT_D == << D_PDF >>
FILES_D_UPPER == << <<"f">>, D_PDF_UPPER >>

\* a tree lists its files in the order a traversal of it yields them
Trees ==
  { [base |-> BASE, files |-> fs] :
      fs \in { <<>>,
               <<NOTES_T, FILES_C, ROOT_D>>,
               <<OTHER_T, NOTES_T, FILES_D_UPPER>>,
               <<NOTES_T, OTHER_T, DEEP_C>>,
               <<NESTED_T>> } }

\* a token as an author writes it
Token(bang, pad, target, alias) ==
  bang \o <<"[", "[">> \o pad \o target \o pad
    \o (IF alias = None THEN <<>> ELSE <<"|">> \o pad \o alias \o pad)
    \o <<"]", "]">>

Plain == { <<"x">>, <<"\n">> }

\* well-formed tokens: target and alias hold no bracket and no bar
Tokens ==
  { Token(<<>>, <<>>, <<"t">>, None),
    Token(<<>>, <<" ">>, <<"t">>, <<"y">>),
    Token(<<"!">>, <<>>, C_PNG, None),
    Token(<<"!">>, <<" ">>, C_PNG, <<"y">>),
    Token(<<"!">>, <<>>, D_PDF, None),
    Token(<<"!">>, <<>>, D_PDF_UPPER, <<"y">>) }

\* pieces of token syntax, and a token nested in the alias of another
Pieces ==
  { <<"[", "[">>, <<"]", "]">>, <<"|">>,
    Token(<<"!">>, <<>>, C_PNG, Token(<<>>, <<>>, <<"t">>, None)) }

Segs == Plain \cup {<<"!">>} \cup Tokens \cup Pieces

RECURSIVE Concat(_)
Concat(ss) == IF ss = <<>> THEN <<>> ELSE Head(ss) \o Concat(Tail(ss))

SeqsUpTo(S, n) == UNION { [1..k -> S] : k \in 0..n }

\* a document body, as the segments its author wrote
Bodies == SeqsUpTo(Segs, MaxSegs)

\* tag names as the parent reader hands them over: stripped, not empty
TagNames ==
  { <<"a">>, <<"#", "a">>, <<"a", ",", "b">>, <<"#", "a", ",", "#", "b">>,
    <<"a", ",", " ", "b">>, <<"a", ",", "a">> }

\* ... and without duplicates
TagLists ==
  { ts \in SeqsUpTo(TagNames, MaxTags) :
      \A i, j \in 1..Len(ts) : i # j => ts[i] # ts[j] }

\* header: whether HEADER_RE matches the file (it has a YAML front matter)
Docs ==
  { [segs |-> ss, text |-> Concat(ss), tags |-> <<>>, header |-> TRUE] :
      ss \in Bodies } \cup
  { [segs |-> <<>>, text |-> <<>>, tags |-> ts, header |-> TRUE] :
      ts \in TagLists } \cup
  { [segs |-> ss, text |-> Concat(ss), tags |-> <<<<"#", "a">>>>,
     header |-> FALSE] : ss \in {<<Token(<<>>, <<>>, <<"t">>, None)>>} }

NoDoc == [segs |-> <<>>, text |-> <<>>, tags |-> <<>>, header |-> FALSE]

NoText == [file_in |-> <<>>, link_in |-> <<>>, out |-> <<>>]

Generators == {"article", "page"}

(***************************************************************************)
(* The program                                                             *)
(***************************************************************************)

\* the module is imported: lines 16-17
Init ==
  /\ os_sep \in {"/", "\\"}
  /\ tree \in Trees
  /\ ARTICLE_PATHS = <<>>
  /\ FILE_PATHS = <<>>
  /\ pc = "loaded"
  /\ readers = [g \in Generators |-> "MarkdownReader"]
  /\ doc = NoDoc
  /\ text = NoText
  /\ content = <<>>
  /\ tags = <<>>
  /\ log = <<>>

\* a call is noted once per run of equal calls
Note(l, call) ==
  IF l # <<>> /\ l[Len(l)] = call THEN l ELSE Append(l, call)

\* register(): the four handlers are connected; the host then emits
\* <generator>_init for both generators, reads the documents, emitting
\* <generator>_context after each, and starts over when the content changes
register ==
  /\ pc = "loaded"
  /\ pc' = "idle"
  /\ UNCHANGED <<os_sep, tree, ARTICLE_PATHS, FILE_PATHS, readers, doc, text,
                 content, tags, log>>

\* modify_generator(generator)
modify_generator(g) ==
  /\ ARTICLE_PATHS' = populate_files_and_articles.articles
  /\ FILE_PATHS' = populate_files_and_articles.files
  /\ log' = Note(log, "populate")
  /\ readers' = [readers EXCEPT ![g] = "ObsidianMarkdownReader"]

\* signals.article_generator_init
article_generator_init ==
  /\ pc = "idle"
  /\ modify_generator("article")
  /\ pc' = "article_init"
  /\ UNCHANGED <<os_sep, tree, doc, text, content, tags>>

\* signals.page_generator_init
page_generator_init ==
  /\ pc = "article_init"
  /\ modify_generator("page")
  /\ pc' = "reading"
  /\ UNCHANGED <<os_sep, tree, doc, text, content, tags>>

\* read refreshing the index before it rewrites
read_populating(d) ==
  /\ pc = "reading"
  /\ \E g \in Generators : readers[g] = "ObsidianMarkdownReader"
  /\ doc' = d
  /\ ARTICLE_PATHS' = populate_files_and_articles.articles
  /\ FILE_PATHS' = populate_files_and_articles.files
  /\ text' = replace_obsidian_links(d.text)
  /\ content' = text'.out
  /\ tags' = _load_yaml_metadata(d.tags)
  /\ log' = Note(Note(log, "populate"), "rewrite")
  /\ pc' = "read"
  /\ UNCHANGED <<os_sep, tree, readers>>

\* ObsidianMarkdownReader.read(source_path), called by a generator whose
\* reader for 'md' it is
read(d) ==
  /\ pc = "reading"
  /\ \E g \in Generators : readers[g] = "ObsidianMarkdownReader"
  /\ doc' = d
  /\ IF d.header
     THEN /\ text' = replace_obsidian_links(d.text)
          /\ content' = text'.out
          /\ tags' = _load_yaml_metadata(d.tags)
          /\ log' = Note(log, "rewrite")
     ELSE /\ text' = NoText
          /\ content' = d.text
          /\ tags' = d.tags
          /\ log' = log
  /\ pc' = "read"
  /\ UNCHANGED <<os_sep, tree, ARTICLE_PATHS, FILE_PATHS, readers>>

\* signals.article_generator_context / page_generator_context
generator_context ==
  /\ pc = "read"
  /\ tags' = modify_metadata(tags)
  /\ pc' = "context"
  /\ UNCHANGED <<os_sep, tree, ARTICLE_PATHS, FILE_PATHS, readers, doc, text,
                 content, log>>

\* the generator goes on to its next document
NextDocument ==
  /\ pc = "context"
  /\ pc' = "reading"
  /\ doc' = NoDoc
  /\ text' = NoText
  /\ content' = <<>>
  /\ tags' = <<>>
  /\ UNCHANGED <<os_sep, tree, ARTICLE_PATHS, FILE_PATHS, readers, log>>

\* the build ends; its generators and their readers are dropped
EndBuild ==
  /\ pc = "reading"
  /\ pc' = "idle"
  /\ readers' = [g \in Generators |-> "MarkdownReader"]
  /\ log' = <<>>
  /\ UNCHANGED <<os_sep, tree, ARTICLE_PATHS, FILE_PATHS, doc, text, content,
                 tags>>

\* the author adds, moves or deletes files between two builds
ChangeTree ==
  /\ pc = "idle"
  /\ tree' \in Trees \ {tree}
  /\ UNCHANGED <<os_sep, ARTICLE_PATHS, FILE_PATHS, pc, readers, doc, text,
                 content, tags, log>>

Next ==
  \/ register
  \/ article_generator_init
  \/ page_generator_init
  \/ \E d \in Docs : read(d)
  \/ generator_context
  \/ NextDocument
  \/ EndBuild
  \/ ChangeTree

Spec == Init /\ [][Next]_vars

(***************************************************************************)
(* Properties                                                              *)
(***************************************************************************)

\* read has rewritten the body of doc: content is what it returned
Rewrote == pc \in {"read", "context"} /\ doc.header

\* text around a token that holds no token syntax itself
Context == Plain \cup {<<>>}

Pads == {<<>>, <<" ">>}

Aliases == {None, <<"y">>}

Display(target, alias) == IF alias = None THEN target ELSE alias

DocumentForm(target, alias) ==
  IF target \in DOMAIN ARTICLE_PATHS
  THEN <<"[">> \o Display(target, alias) \o <<"]", "(", "{filename}">>
         \o ARTICLE_PATHS[target] \o target \o <<".", "m", "d", ")">>
  ELSE Display(target, alias)

\* C1: a document token [[target]] or [[target|alias]] is replaced by the
\* Markdown link [display]({filename}<dir><target>.md) when the trimmed
\* target is a key of ARTICLE_PATHS and by the display text alone otherwise;
\* display is the trimmed alias, or the trimmed target without an alias.
C1_DocumentTokenForms ==
  Rewrote =>
    \A pre \in Context, post \in Context, pad \in Pads, alias \in Aliases,
       target \in {<<"t">>, C_PNG} :
      doc.text = pre \o Token(<<>>, pad, target, alias) \o post
        => content = pre \o DocumentForm(target, alias) \o post

C1_Witness ==
  /\ Rewrote
  /\ doc.text = Token(<<>>, <<" ">>, <<"t">>, <<"y">>)
  /\ <<"t">> \in DOMAIN ARTICLE_PATHS
  /\ content = <<"[", "y", "]", "(", "{filename}">> \o ARTICLE_PATHS[<<"t">>]
                 \o <<"t", ".", "m", "d", ")">>

\* ".pdf" in any letter case
PdfSuffixes ==
  { <<".", p, d, f>> : p \in {"p", "P"}, d \in {"d", "D"}, f \in {"f", "F"} }

AssetForm(target, alias) ==
  IF target \notin DOMAIN FILE_PATHS THEN <<>>
  ELSE LET url == FILE_PATHS[target] \o target
       IN  IF \E sfx \in PdfSuffixes : endswith(target, sfx)
           THEN PDF_OPEN \o url \o PDF_MID \o url \o PDF_CLOSE
           ELSE <<"!", "[">> \o Display(target, alias)
                  \o <<"]", "(", "{static}">> \o url \o <<")">>

\* C2: an asset token ![[target]] or ![[target|alias]] is replaced by nothing
\* when the trimmed target is no key of FILE_PATHS, by the iframe block and
\* the download link with the same {static}<dir><target> URL when it is a key
\* ending in .pdf, and by the image ![display]({static}<dir><target>) when it
\* is a key with another extension.
C2_AssetTokenForms ==
  Rewrote =>
    \A pre \in Context, post \in Context, pad \in Pads, alias \in Aliases,
       target \in {C_PNG, D_PDF, D_PDF_UPPER, <<"t">>} :
      doc.text = pre \o Token(<<"!">>, pad, target, alias) \o post
        => content = pre \o AssetForm(target, alias) \o post

C2_Witness ==
  /\ Rewrote
  /\ doc.text = Token(<<"!">>, <<>>, D_PDF, None)
  /\ D_PDF \in DOMAIN FILE_PATHS
  /\ content = PDF_OPEN \o FILE_PATHS[D_PDF] \o D_PDF \o PDF_MID
                 \o FILE_PATHS[D_PDF] \o D_PDF \o PDF_CLOSE

\* C3: the first "]]" after a "[[" ends the token: two tokens on one line,
\* the first with an alias, are scanned as two tokens and each is resolved
\* and replaced on its own.
C3_TokensScannedSeparately ==
  Rewrote =>
    \A mid \in {<<>>, <<"x">>}, pad \in Pads :
      doc.text = Token(<<>>, pad, <<"t">>, <<"y">>) \o mid
                   \o Token(<<>>, <<>>, <<"t">>, None)
        => content = DocumentForm(<<"t">>, <<"y">>) \o mid
                       \o DocumentForm(<<"t">>, None)

\* the document pass replaces a span that directly follows a "!"
StrayBang(t) == \E i \in link_re_starts(t, 1) : i > 1 /\ t[i - 1] = "!"

\* C4 as stated: for every text and every index, the document pass never
\* replaces a [[...]] span that directly follows a "!".
C4_NoStrayBang == Rewrote => ~StrayBang(text.link_in)

\* the body is made of plain text, "!" and well-formed tokens, with at most
\* one token on a line
OneTokenPerLine(ss) ==
  /\ \A k \in 1..Len(ss) : ss[k] \in Plain \cup {<<"!">>} \cup Tokens
  /\ \A i, j \in 1..Len(ss) :
       (i < j /\ ss[i] \in Tokens /\ ss[j] \in Tokens)
         => \E k \in (i + 1)..(j - 1) : ss[k] = <<"\n">>

\* C4 amended: in a text made of plain text and well-formed tokens, at most
\* one on a line, the document pass never replaces a span that directly
\* follows a "!".
C4_NoStrayBangOneTokenPerLine ==
  (Rewrote /\ OneTokenPerLine(doc.segs)) => ~StrayBang(text.link_in)

C4_Witness ==
  /\ Rewrote
  /\ doc.segs = << <<"!">>, Token(<<>>, <<>>, <<"t">>, None) >>
  /\ <<"t">> \in DOMAIN ARTICLE_PATHS
  /\ text.link_in = <<>>
  /\ content = <<>>

\* the directory of a file below the root: /d1/.../dk/
RECURSIVE DirOf(_)
DirOf(file) ==
  IF Len(file) <= 1 THEN <<"/">> ELSE <<"/">> \o Head(file) \o DirOf(Tail(file))

NameOf(file) == file[Len(file)]

\* the index was built over the tree as it is now
Built == pc \in {"article_init", "reading", "read", "context"}

\* C5: the value recorded for a document or asset file at
\* <root>/d1/.../dk/<name> is /d1/.../dk/ (/ in the root), whatever the names
\* of the directories; stated for the files whose name no other file of the
\* tree has.
C5_RecordedDirectory ==
  Built =>
    \A k \in 1..Len(tree.files) :
      LET file == tree.files[k]
          name == NameOf(file)
          stem == Slice(name, 1, Len(name) - 3)
      IN  (\A j \in 1..Len(tree.files) :
             j # k => NameOf(tree.files[j]) # name)
          => /\ endswith(name, <<".">> \o MD)
                  => Get(ARTICLE_PATHS, stem) = DirOf(file)
             /\ (\E x \in 1..Len(EXTENSIONS) :
                   endswith(name, <<".">> \o EXTENSIONS[x]))
                  => Get(FILE_PATHS, name) = DirOf(file)

\* the tags C6 describes: split on the commas, each part trimmed, every "#"
\* removed, in order, duplicates kept
RECURSIVE C6_Normalized(_)
C6_Normalized(ts) ==
  IF ts = <<>> THEN <<>>
  ELSE LET parts == split(Head(ts), ",")
       IN  [k \in 1..Len(parts) |-> replace(strip(parts[k]), <<"#">>, <<>>)]
             \o C6_Normalized(Tail(ts))

C7_BuildThenResolve ==
  /\ \A i, j \in 1..Len(log) :
       (i < j /\ log[i] = "rewrite") => log[j] # "populate"
  /\ Rewrote => log = <<"populate", "rewrite">>

C7_Witness == pc = "read" /\ doc.header /\ log = <<"populate", "rewrite">>

\* C8: the second call of populate_files_and_articles of a build, on the
\* unchanged tree, leaves ARTICLE_PATHS and FILE_PATHS as the first call
\* left them.
C8_Idempotent ==
  [][pc = "article_init"
       => (ARTICLE_PATHS' = ARTICLE_PATHS /\ FILE_PATHS' = FILE_PATHS)]_vars

C8_Witness ==
  /\ pc = "reading"
  /\ tree.files = <<OTHER_T, NOTES_T, FILES_D_UPPER>>
  /\ Get(ARTICLE_PATHS, <<"t">>) = <<"/", "n", "/">>

\* no "[[" is followed by a "]]"
NoToken(t) ==
  ~ \E i, j \in 1..Len(t) :
      i < j /\ StartsAt(t, i, <<"[", "[">>) /\ StartsAt(t, j, <<"]", "]">>)

\* C9: a text without a complete token, an unclosed "[[" included, is
\* returned unchanged, and rewriting it again changes nothing.
C9_NoTokenIdentity ==
  (Rewrote /\ NoToken(doc.text))
    => /\ content = doc.text
       /\ replace_obsidian_links(content).out = content

C9_Witness ==
  /\ Rewrote
  /\ doc.text = <<"[", "[", "x">>
  /\ content = <<"[", "[", "x">>

\* some file of the tree is the document with this stem
InTree(stem) ==
  \E k \in 1..Len(tree.files) :
    NameOf(tree.files[k]) = stem \o <<".">> \o MD

\* C10: no call removes a key from ARTICLE_PATHS or FILE_PATHS, so a token
\* whose target was deleted from the tree still resolves to a link after the
\* index is rebuilt.
C10_IndexOnlyGrows ==
  /\ [][/\ DOMAIN ARTICLE_PATHS \subseteq DOMAIN ARTICLE_PATHS'
        /\ DOMAIN FILE_PATHS \subseteq DOMAIN FILE_PATHS']_vars
  /\ [](((Rewrote /\ doc.text = Token(<<>>, <<>>, <<"t">>, None))
          /\ <<"t">> \in DOMAIN ARTICLE_PATHS)
         => content = DocumentForm(<<"t">>, None))
  /\ [](((Rewrote /\ doc.text = Token(<<"!">>, <<>>, C_PNG, None))
          /\ C_PNG \in DOMAIN FILE_PATHS)
         => content = AssetForm(C_PNG, None))

C10_Witness ==
  /\ Rewrote
  /\ doc.text = Token(<<>>, <<>>, <<"t">>, None)
  /\ ~InTree(<<"t">>)
  /\ tree.files = <<>>
  /\ content = <<"[", "t", "]", "(", "{filename}", "/", "n", "/", "t", ".",
                 "m", "d", ")">>

====
